---- MODULE Spec2Model ----
(***************************************************************************)
(* Signal digestion and trade lifecycle of the trading bot (class Bot).    *)
(*                                                                         *)
(* The model follows the Bot whose constructor creates the Bottleneck      *)
(* limiter (src/unnamed/part_000, lines 15-662).  Every action is one run  *)
(* of the event loop between two awaits of the JavaScript code.  The Trade *)
(* class (./trade) is not part of the sources at hand; its lifecycle       *)
(* (entry order, exit order, first trigger wins, funds refresh after a     *)
(* successful exit) is taken from section 4.4 of the specification.        *)
(***************************************************************************)
EXTENDS Integers, Sequences, FiniteSets, TLC

(***************************************************************************)
(* Bounds of the model.                                                    *)
(***************************************************************************)
MaxJobs == 2        \* signals ever handed to limiter.schedule
MaxSignals == 2     \* signals carried by one advice
MaxCandles == 2     \* ANALYZE_CHART notifications ever processed
MaxStreams == 1     \* replacements of the stream of one chart
MaxResyncs == 2     \* runs of updateTimer
MaxAdvisorIds == 2  \* entries of config.advisors
MaxRefreshes == 2   \* funds refreshes started with key f

(***************************************************************************)
(* Configuration the bot is constructed from: advisors, their charts, the  *)
(* charts' exchange metadata and the strategies configured on each chart.  *)
(***************************************************************************)
\* a limiter that admits two jobs at a time
maxConcurrentTwo == 1 + 1

maxConcurrent == 1

Advisors == {"a1", "a2"}

Charts == {"c1", "c2"}

Assets == {"USDT", "BTC"}

\* advisor.chartIds
chartIds(advisorId) ==
  IF advisorId = "a1" THEN {"c1", "c2"} ELSE {"c2"}

\* chart.info: c1 and c2 are two timeframes of the symbol BTCUSDT
info(chartId) ==
  [baseAsset |-> "BTC", quoteAsset |-> "USDT", stepSize |-> 1]

\* chart.config.strategies
strategies(chartId) ==
  IF chartId = "c1" THEN {"s1", "s2"} ELSE {"s2"}

\* parseFloat(strategy.config.trade.risk || 0)
risk(strategy) == IF strategy = "s1" THEN 10 ELSE 80

Signals == {"LONG", "SHORT", "CLOSE LONG", "CLOSE SHORT", "HOLD"}

\* snapshots calculateFunds can build from the exchange balance
Ledgers ==
  { [USDT |-> [available |-> 1000], BTC |-> [available |-> 1000]],
    [USDT |-> [available |-> 400]] }

VARIABLES
  trades,      \* this.trades, in push order
  funds,       \* this.funds
  jobs,        \* every job handed to limiter.schedule, in schedule order
  queue,       \* the limiter's queue of jobs not yet started
  started,     \* job ids in the order the limiter launched them
  submitted,   \* job ids in the order their order reached provider.buy/sell
  logs,        \* what reached this.log as an error
  refreshed,   \* whether this.funds was replaced since construction
  candles,     \* the ANALYZE_CHART notifications processed, in arrival order
  analyses,    \* the calls of advisor.analyze that have not returned
  shutdown,    \* the confirmed quit: its closeTrades call and process.exit
  charts,      \* this.charts: the stream and the exchange metadata each holds
  exchangeInfo,\* this.exchangeInfo, as the number of the fetch it came from
  resync,      \* updateTimer: the pending timers and the await each run stands at
  startup,     \* initialize(config): the config and the step it stands at
  refreshes,   \* the funds refreshes started with key f, in the order started
  paused       \* this.paused

vars == <<trades, funds, jobs, queue, started, submitted, logs, refreshed,
          candles, analyses, shutdown, charts, exchangeInfo, resync, startup,
          refreshes, paused>>

\* what the operator's keys f and p work on
keys == <<refreshes, paused>>

\* what the digestion, the closures and the notification path leave alone
env == <<charts, exchangeInfo, resync, startup, keys>>

\* the state of the notification path from candles to advice
bus == <<candles, analyses>>

(***************************************************************************)
(* Helpers of digestAdvice.                                                *)
(***************************************************************************)
\* `${advisor.name}\u2192${chart.name}\u2192${strategy.name}`
who(advisorId, chartId, strategy) == <<advisorId, chartId, strategy>>

\* (this.funds[asset] && this.funds[asset].available) || 0
available(asset) ==
  IF asset \in DOMAIN funds THEN funds[asset].available ELSE 0

RECURSIVE SumQuantity(_)
\* reduce((quantity, trade) => quantity + trade.quantity, 0)
SumQuantity(idxs) ==
  IF idxs = {} THEN 0
  ELSE LET i == CHOOSE k \in idxs : TRUE
       IN trades[i].quantity + SumQuantity(idxs \ {i})

\* the longs that spent the asset (their chart's quote asset) instead
longsQuotedInAsset(asset) ==
  { i \in DOMAIN trades :
      trades[i].isLong /\ trades[i].isOpen
      /\ info(trades[i].chartId).quoteAsset = asset }

longsSellingBackAsset(asset) ==
  { i \in DOMAIN trades :
      trades[i].isLong /\ trades[i].isOpen
      /\ info(trades[i].chartId).baseAsset = asset }

shortsSellingBackAsset(asset) ==
  { i \in DOMAIN trades :
      ~trades[i].isLong /\ trades[i].isOpen
      /\ info(trades[i].chartId).quoteAsset = asset }

quantityLockedByTrades(asset) ==
  SumQuantity(longsSellingBackAsset(asset))
    + SumQuantity(shortsSellingBackAsset(asset))

\* const asset = isLong ? chart.info.quoteAsset : chart.info.baseAsset
settlementAsset(chartId, isLong) ==
  IF isLong THEN info(chartId).quoteAsset ELSE info(chartId).baseAsset

\* the risk taken as a factor instead of a percentage
amountWithoutPercent(asset, strategy) ==
  [num |-> (available(asset) - quantityLockedByTrades(asset)) * risk(strategy),
   den |-> 1]

\* const amount = (funds * parseFloat(strategy.config.trade.risk || 0)) / 100
\* kept as the exact fraction num / den
amount(asset, strategy) ==
  [num |-> (available(asset) - quantityLockedByTrades(asset)) * risk(strategy),
   den |-> 100]

\* provider.clampQuantity(amount, chart.info, isLong): the amount floored to the
\* lot step (negative for a negative amount), or nothing when the exchange's
\* minimum is not met
clampQuantity(amt, chartInfo) ==
  {0, ((amt.num \div amt.den) \div chartInfo.stepSize) * chartInfo.stepSize}

\* the uniqueness check with the chart compared against the wrong id
openTradeOfPairWrongId(advisorId, chartId) ==
  { i \in DOMAIN trades :
      trades[i].advisorId = advisorId /\ trades[i].chartId = advisorId
      /\ trades[i].isOpen }

\* the uniqueness check without the comparison of isOpen
openTradeOfPairEver(advisorId, chartId) ==
  { i \in DOMAIN trades :
      trades[i].advisorId = advisorId /\ trades[i].chartId = chartId }

\* this.trades.find(trade => advisorId, chartId and isOpen match)
openTradeOfPair(advisorId, chartId) ==
  { i \in DOMAIN trades :
      trades[i].advisorId = advisorId /\ trades[i].chartId = chartId
      /\ trades[i].isOpen }

\* the find of the CLOSE branch without the comparison of who
findTradeToCloseAnyStrategy(advisorId, chartId, label) ==
  LET hits == { i \in DOMAIN trades :
                  trades[i].advisorId = advisorId /\ trades[i].chartId = chartId
                  /\ trades[i].isOpen }
  IN IF hits = {} THEN 0 ELSE CHOOSE i \in hits : \A k \in hits : i <= k

\* this.trades.find(trade => advisorId, chartId, who and isOpen match): the
\* first match in push order, 0 when there is none
findTradeToClose(advisorId, chartId, label) ==
  LET hits == { i \in DOMAIN trades :
                  trades[i].advisorId = advisorId /\ trades[i].chartId = chartId
                  /\ trades[i].who = label /\ trades[i].isOpen }
  IN IF hits = {} THEN 0 ELSE CHOOSE i \in hits : \A k \in hits : i <= k

\* a CLOSE branch that does not compare the signal with the trade's direction
polarityIgnored(signal, isLong) == signal \in {"CLOSE LONG", "CLOSE SHORT"}

\* (signal === 'CLOSE LONG' && trade.isLong) || (signal === 'CLOSE SHORT' && !trade.isLong)
polarityMatches(signal, isLong) ==
  (signal = "CLOSE LONG" /\ isLong) \/ (signal = "CLOSE SHORT" /\ ~isLong)

\* a position that ignores every request to close
closeIgnored(t, reason) == t

\* a close that submits an exit order for every trigger it is handed
closeOnEveryTrigger(t, reason) ==
  IF t.isOpen
    THEN [t EXCEPT !.closing = reason, !.exitOrders = @ + 1]
    ELSE t

\* trade.close(reason) on one position: the first trigger wins and submits
\* the exit order, later ones are ignored once closure has begun
close(t, reason) ==
  IF t.isOpen /\ t.closing = "none"
    THEN [t EXCEPT !.closing = reason, !.exitOrders = @ + 1]
    ELSE t

(***************************************************************************)
(* The limiter: Bottleneck({ maxConcurrent: 1, minTime: 300 }).            *)
(***************************************************************************)
Settled == {"resolved", "rejected"}

\* the jobs the limiter has launched and whose promise has not settled
Running == { j \in DOMAIN jobs : jobs[j].pc \notin Settled \cup {"queued"} }

\* a limiter that launches the newest waiting job first
nextJobNewest == queue[Len(queue)]

\* the job the limiter launches next: the head of its queue
nextJob == Head(queue)

canLaunch == queue # <<>> /\ Cardinality(Running) < maxConcurrent

\* the rejection of job j reaches processNotification's catch through
\* Promise.all, which rejects on the first rejection of the advice only
logRejection(j, message) ==
  IF \E k \in DOMAIN jobs :
       k # j /\ jobs[k].advice = jobs[j].advice /\ jobs[k].pc = "rejected"
    THEN logs
    ELSE logs \cup {[level |-> "error", message |-> message]}

\* process.exit() has not been called: the event loop still runs
running == shutdown.status # "exited"

\* a config whose provider and advisors are all well formed
validConfig ==
  [shape |-> "object", provider |-> "valid",
   advisors |-> [isArray |-> TRUE, ids |-> <<"a1", "a2">>]]

(***************************************************************************)
(* State once initialize(config) has completed: addProvider has stored the *)
(* exchange metadata and a first funds snapshot, the notifications are     *)
(* subscribed, the first resync timer is pending and the advisors with     *)
(* their charts are added.                                                 *)
(***************************************************************************)
Init ==
  /\ trades = <<>>
  /\ funds \in Ledgers
  /\ jobs = <<>>
  /\ queue = <<>>
  /\ started = <<>>
  /\ submitted = <<>>
  /\ logs = {}
  /\ refreshed = FALSE
  /\ candles = <<>>
  /\ analyses = {}
  /\ shutdown = [status |-> "none", requested |-> {}, awaiting |-> {}]
  /\ charts = [c \in Charts |-> [stream |-> 0, exchangeInfo |-> 0]]
  /\ exchangeInfo = 0
  /\ resync = [timers |-> 1, delay |-> 30, runs |-> <<>>]
  /\ startup = [pc |-> "done", config |-> validConfig, index |-> 3,
                added |-> Advisors]
  /\ refreshes = <<>>
  /\ paused = FALSE

RECURSIVE SignalSeqs(_)
\* the signals arrays of up to n signals
SignalSeqs(n) ==
  IF n = 0 THEN {<<>>}
  ELSE LET shorter == SignalSeqs(n - 1)
       IN shorter \cup { Append(sq, sg) : sq \in { x \in shorter : Len(x) = n - 1 },
                                          sg \in Signals }

\* the signals arrays an advice can carry
AdviceSignals == SignalSeqs(MaxSignals) \ {<<>>}

\* resolve() / reject(error): a settled job keeps its outcome only
settle(job, outcome, error) ==
  [job EXCEPT !.pc = outcome, !.error = error,
              !.amount = [num |-> 0, den |-> 1],
              !.avail = 0, !.locked = 0, !.quantity = 0, !.trade = 0,
              !.stream = 0, !.exchangeInfo = 0]

newJob(adviceId, advisorId, chartId, strategy, signal) ==
  [advice |-> adviceId, advisorId |-> advisorId, chartId |-> chartId,
   strategy |-> strategy, signal |-> signal, pc |-> "queued",
   amount |-> [num |-> 0, den |-> 1], avail |-> 0, locked |-> 0,
   quantity |-> 0, trade |-> 0, error |-> "none", candle |-> 0,
   stream |-> 0, exchangeInfo |-> 0]

\* processNotification, DIGEST_ADVICE: digestAdvice hands one job per signal
\* to limiter.schedule, in the order of the signals array
DigestAdvice(advisorId, chartId, strategy, signals) ==
  /\ running
  /\ chartId \in chartIds(advisorId)
  /\ strategy \in strategies(chartId)
  /\ signals \in AdviceSignals
  /\ Len(jobs) + Len(signals) <= MaxJobs
  /\ LET adviceId == IF jobs = <<>> THEN 1 ELSE jobs[Len(jobs)].advice + 1
          added == [k \in 1 .. Len(signals) |->
                      newJob(adviceId, advisorId, chartId, strategy, signals[k])]
     IN /\ jobs' = jobs \o added
        /\ queue' = queue \o [k \in 1 .. Len(signals) |-> Len(jobs) + k]
  /\ UNCHANGED <<trades, funds, started, submitted, logs, refreshed, bus, shutdown, env>>

\* the limiter launches a CLOSE LONG / CLOSE SHORT job
StartClose(j) ==
  LET job == jobs[j]
      t == findTradeToClose(job.advisorId, job.chartId,
                            who(job.advisorId, job.chartId, job.strategy))
  IN IF t # 0 /\ polarityMatches(job.signal, trades[t].isLong)
       THEN /\ trades' = [trades EXCEPT ![t] = close(trades[t], "signal")]
            /\ IF trades[t].closing = "none"
                 \* trade.close('signal') submits the exit order
                 THEN /\ jobs' = [jobs EXCEPT ![j].pc = "closing", ![j].trade = t]
                      /\ submitted' = Append(submitted, j)
                 \* closure has begun already: the request is ignored
                 ELSE /\ jobs' = [jobs EXCEPT ![j] = settle(jobs[j], "resolved", "none")]
                      /\ UNCHANGED submitted
       ELSE /\ jobs' = [jobs EXCEPT ![j] = settle(jobs[j], "resolved", "none")]
            /\ UNCHANGED <<trades, submitted>>

\* the limiter launches a LONG / SHORT job: sizing up to await clampQuantity
StartOpen(j) ==
  LET job == jobs[j]
      asset == settlementAsset(job.chartId, job.signal = "LONG")
  IN /\ jobs' = [jobs EXCEPT ![j].pc = "clamping",
                              ![j].avail = available(asset),
                              ![j].locked = quantityLockedByTrades(asset),
                              ![j].amount = amount(asset, job.strategy)]
     /\ UNCHANGED <<trades, submitted>>

\* the limiter launches the job at the head of its queue
StartJob ==
  /\ running
  /\ canLaunch
  /\ LET j == nextJob
     IN /\ queue' = SelectSeq(queue, LAMBDA k : k # j)
        /\ started' = Append(started, j)
        /\ CASE jobs[j].signal \in {"CLOSE LONG", "CLOSE SHORT"} ->
                   StartClose(j) /\ UNCHANGED logs
             [] jobs[j].signal \in {"LONG", "SHORT"} ->
                   StartOpen(j) /\ UNCHANGED logs
             [] OTHER ->
                   /\ jobs' = [jobs EXCEPT ![j] =
                               settle(jobs[j], "rejected", "Unable to process signal")]
                   /\ logs' = logRejection(j, <<"Unable to process signal",
                                               jobs[j].signal, jobs[j].strategy>>)
                   /\ UNCHANGED <<trades, submitted>>
  /\ UNCHANGED <<funds, refreshed, bus, shutdown, env>>

\* the check after clampQuantity without its quantity > 0 test
ClampReturnAnyQuantity(j, quantity) ==
  /\ running
  /\ jobs[j].pc = "clamping"
  /\ quantity \in clampQuantity(jobs[j].amount, info(jobs[j].chartId))
  /\ IF openTradeOfPair(jobs[j].advisorId, jobs[j].chartId) = {}
       THEN /\ jobs' = [jobs EXCEPT ![j].pc = "initializing",
                                     ![j].quantity = quantity,
                                     ![j].trade = Len(trades) + 1,
                                     ![j].stream = charts[jobs[j].chartId].stream,
                                     ![j].exchangeInfo = exchangeInfo]
            /\ submitted' = Append(submitted, j)
       ELSE /\ jobs' = [jobs EXCEPT ![j] = settle(jobs[j], "resolved", "none")]
            /\ UNCHANGED submitted
  /\ UNCHANGED <<trades, funds, queue, started, logs, refreshed, bus, shutdown, env>>

\* a LONG / SHORT branch that forgets to resolve when nothing is to be opened
ClampReturnUnsettled(j, quantity) ==
  /\ running
  /\ jobs[j].pc = "clamping"
  /\ quantity \in clampQuantity(jobs[j].amount, info(jobs[j].chartId))
  /\ IF quantity > 0 /\ openTradeOfPair(jobs[j].advisorId, jobs[j].chartId) = {}
       THEN /\ jobs' = [jobs EXCEPT ![j].pc = "initializing",
                                     ![j].quantity = quantity,
                                     ![j].trade = Len(trades) + 1,
                                     ![j].stream = charts[jobs[j].chartId].stream,
                                     ![j].exchangeInfo = exchangeInfo]
            /\ submitted' = Append(submitted, j)
       ELSE /\ jobs' = [jobs EXCEPT ![j].pc = "returned"]
            /\ UNCHANGED submitted
  /\ UNCHANGED <<trades, funds, queue, started, logs, refreshed, bus, shutdown, env>>

\* clampQuantity returns: the quantity > 0 and uniqueness check, then the
\* call of Trade.initialize, which submits the entry order
ClampReturn(j, quantity) ==
  /\ running
  /\ jobs[j].pc = "clamping"
  /\ quantity \in clampQuantity(jobs[j].amount, info(jobs[j].chartId))
  /\ IF quantity > 0 /\ openTradeOfPair(jobs[j].advisorId, jobs[j].chartId) = {}
       THEN /\ jobs' = [jobs EXCEPT ![j].pc = "initializing",
                                     ![j].quantity = quantity,
                                     ![j].trade = Len(trades) + 1,
                                     ![j].stream = charts[jobs[j].chartId].stream,
                                     ![j].exchangeInfo = exchangeInfo]
            /\ submitted' = Append(submitted, j)
       ELSE /\ jobs' = [jobs EXCEPT ![j] = settle(jobs[j], "resolved", "none")]
            /\ UNCHANGED submitted
  /\ UNCHANGED <<trades, funds, queue, started, logs, refreshed, bus, shutdown, env>>

\* a rejected clampQuantity that ends the process
ClampFailFatal(j) ==
  /\ running
  /\ jobs[j].pc = "clamping"
  /\ jobs' = [jobs EXCEPT ![j] = settle(jobs[j], "rejected", "clampQuantity failed")]
  /\ logs' = logRejection(j, <<"clampQuantity failed">>)
  /\ shutdown' = [shutdown EXCEPT !.status = "exited"]
  /\ UNCHANGED <<trades, funds, queue, started, submitted, refreshed, bus, env>>

\* clampQuantity rejects: the catch of the LONG / SHORT branch rejects the job
ClampFail(j) ==
  /\ running
  /\ jobs[j].pc = "clamping"
  /\ jobs' = [jobs EXCEPT ![j] = settle(jobs[j], "rejected", "clampQuantity failed")]
  /\ logs' = logRejection(j, <<"clampQuantity failed">>)
  /\ UNCHANGED <<trades, funds, queue, started, submitted, refreshed, bus, shutdown, env>>

\* the record Trade.initialize resolves with
newTrade(job) ==
  [id |-> job.trade, advisorId |-> job.advisorId, chartId |-> job.chartId,
   who |-> who(job.advisorId, job.chartId, job.strategy),
   isLong |-> (job.signal = "LONG"), quantity |-> job.quantity,
   isOpen |-> TRUE, closing |-> "none", exitOrders |-> 0,
   candle |-> job.candle, stream |-> job.stream,
   exchangeInfo |-> job.exchangeInfo]

\* Trade.initialize resolves with a trade: if (trade) this.trades.push(trade)
EntryFilled(j) ==
  /\ running
  /\ jobs[j].pc = "initializing"
  /\ trades' = Append(trades, newTrade(jobs[j]))
  /\ jobs' = [jobs EXCEPT ![j] = settle(jobs[j], "resolved", "none")]
  /\ UNCHANGED <<funds, queue, started, submitted, logs, refreshed, bus, shutdown, env>>

\* what the position reports through its log callback when its entry order
\* failed
entryFailureReport == [level |-> "error", message |-> <<"entry order failed">>]

\* Trade.initialize resolves with nothing (the entry order failed and the
\* position reported it): no push, the job resolves
EntryAbandoned(j) ==
  /\ running
  /\ jobs[j].pc = "initializing"
  /\ jobs' = [jobs EXCEPT ![j] = settle(jobs[j], "resolved", "none")]
  /\ logs' = logs \cup {entryFailureReport}
  /\ UNCHANGED <<trades, funds, queue, started, submitted, refreshed, bus, shutdown, env>>

\* a failed entry whose position is registered all the same
EntryFailedRegistered(j) ==
  /\ running
  /\ jobs[j].pc = "initializing"
  /\ trades' = Append(trades, newTrade(jobs[j]))
  /\ jobs' = [jobs EXCEPT ![j] = settle(jobs[j], "rejected", "entry order failed")]
  /\ logs' = logRejection(j, <<"entry order failed">>) \cup {entryFailureReport}
  /\ UNCHANGED <<funds, queue, started, submitted, refreshed, bus, shutdown, env>>

\* the catch of the LONG / SHORT branch without its reject(error): the failed
\* job's promise never settles
EntryFailedUnsettled(j) ==
  /\ running
  /\ jobs[j].pc = "initializing"
  /\ jobs' = [jobs EXCEPT ![j].pc = "caught", ![j].error = "entry order failed"]
  /\ UNCHANGED <<trades, funds, queue, started, submitted, logs, refreshed, bus, shutdown, env>>

\* Trade.initialize rejects (the entry order failed): the job rejects
EntryFailed(j) ==
  /\ running
  /\ jobs[j].pc = "initializing"
  /\ jobs' = [jobs EXCEPT ![j] = settle(jobs[j], "rejected", "entry order failed")]
  /\ logs' = logRejection(j, <<"entry order failed">>) \cup {entryFailureReport}
  /\ UNCHANGED <<trades, funds, queue, started, submitted, refreshed, bus, shutdown, env>>

(***************************************************************************)
(* The position's own lifecycle and the closures requested from outside.   *)
(***************************************************************************)
Triggers == {"stop", "ttl"}

\* a position that is not Closed sees its stop-loss or profit target crossed,
\* or its time to live elapse
TradeTrigger(i, reason) ==
  /\ running
  /\ i \in DOMAIN trades
  /\ trades[i].isOpen
  /\ trades' = [trades EXCEPT ![i] = close(trades[i], reason)]
  /\ UNCHANGED <<funds, jobs, queue, started, submitted, logs, refreshed, bus, shutdown, env>>

\* closeTrades: trade.close('expire') on every open trade, all at once
CloseTrades ==
  /\ running
  /\ \E i \in DOMAIN trades : trades[i].isOpen /\ trades[i].closing = "none"
  /\ trades' = [i \in DOMAIN trades |-> close(trades[i], "expire")]
  /\ UNCHANGED <<funds, jobs, queue, started, submitted, logs, refreshed, bus, shutdown, env>>

\* a quit that does not wait for closeTrades()
shutdownDoneAtOnce(awaiting) == TRUE

\* await this.closeTrades() of the quit confirmation returns once no closure
\* it began is pending
shutdownDone(awaiting) == awaiting = {}

\* key y in mode q: closeTrades() closes every open trade with 'expire'; once
\* all of those closures have resolved, process.exit()
Shutdown ==
  /\ running
  /\ shutdown.status # "closing"
  /\ LET open == { i \in DOMAIN trades : trades[i].isOpen }
         begun == { i \in open : trades[i].closing = "none" }
     IN /\ trades' = [i \in DOMAIN trades |-> close(trades[i], "expire")]
        /\ shutdown' = [status |-> IF shutdownDone(begun) THEN "exited"
                                   ELSE "closing",
                        requested |-> open, awaiting |-> begun]
  /\ UNCHANGED <<funds, jobs, queue, started, submitted, logs, refreshed, bus, env>>

\* the jobs awaiting trade.close('signal') of position i
closersOf(i) ==
  { j \in DOMAIN jobs : jobs[j].pc = "closing" /\ jobs[j].trade = i }

\* the exit order of position i is filled: the funds are refreshed, the
\* position is Closed and the awaiting job resolves
ExitFilled(i, snapshot) ==
  /\ running
  /\ i \in DOMAIN trades
  /\ trades[i].isOpen /\ trades[i].closing # "none"
  /\ snapshot \in Ledgers
  /\ trades' = [trades EXCEPT ![i].isOpen = FALSE, ![i].closing = "none"]
  /\ funds' = snapshot
  /\ refreshed' = TRUE
  /\ jobs' = [j \in DOMAIN jobs |->
                IF j \in closersOf(i) THEN settle(jobs[j], "resolved", "none")
                ELSE jobs[j]]
  /\ shutdown' =
       IF i \in shutdown.awaiting
         THEN LET rest == shutdown.awaiting \ {i}
              IN [shutdown EXCEPT !.awaiting = rest,
                                  !.status = IF shutdownDone(rest) THEN "exited"
                                             ELSE "closing"]
         ELSE shutdown
  /\ UNCHANGED <<queue, started, submitted, logs, bus, env>>

\* a failed exit order that leaves the position Closed
ExitFailedClosesPosition(i) ==
  /\ running
  /\ i \in DOMAIN trades
  /\ trades[i].isOpen /\ trades[i].closing # "none"
  /\ trades' = [trades EXCEPT ![i].closing = "none", ![i].exitOrders = 0,
                            ![i].isOpen = FALSE]
  /\ jobs' = [j \in DOMAIN jobs |->
                IF j \in closersOf(i)
                  THEN settle(jobs[j], "rejected", "exit order failed")
                ELSE jobs[j]]
  /\ logs' = IF trades[i].closing = "signal"
               THEN IF closersOf(i) = {} THEN logs
                    ELSE logRejection(CHOOSE j \in closersOf(i) : TRUE,
                                      <<"exit order failed">>)
               ELSE logs \cup {[level |-> "error",
                                message |-> <<"exit order failed">>]}
  /\ shutdown' =
       IF i \in shutdown.awaiting
         THEN [status |-> "failed", requested |-> {}, awaiting |-> {}]
         ELSE shutdown
  /\ UNCHANGED <<funds, queue, started, submitted, refreshed, bus, env>>

\* the exit order of position i fails: the position stays open, the error is
\* reported to whoever requested the closure
ExitFailed(i) ==
  /\ running
  /\ i \in DOMAIN trades
  /\ trades[i].isOpen /\ trades[i].closing # "none"
  /\ trades' = [trades EXCEPT ![i].closing = "none", ![i].exitOrders = 0]
  /\ jobs' = [j \in DOMAIN jobs |->
                IF j \in closersOf(i)
                  THEN settle(jobs[j], "rejected", "exit order failed")
                ELSE jobs[j]]
  /\ logs' = IF trades[i].closing = "signal"
               THEN IF closersOf(i) = {} THEN logs
                    ELSE logRejection(CHOOSE j \in closersOf(i) : TRUE,
                                      <<"exit order failed">>)
               ELSE logs \cup {[level |-> "error",
                                message |-> <<"exit order failed">>]}
  /\ shutdown' =
       IF i \in shutdown.awaiting
         THEN [status |-> "failed", requested |-> {}, awaiting |-> {}]
         ELSE shutdown
  /\ UNCHANGED <<funds, queue, started, submitted, refreshed, bus, env>>

Next ==
  \/ \E advisorId \in Advisors, chartId \in Charts : \E strategy \in strategies(chartId) :
       \E signals \in AdviceSignals :
         DigestAdvice(advisorId, chartId, strategy, signals)
  \/ StartJob
  \/ \E j \in DOMAIN jobs :
       \/ \E quantity \in clampQuantity(jobs[j].amount, info(jobs[j].chartId)) :
            ClampReturn(j, quantity)
       \/ ClampFail(j)
       \/ EntryFilled(j)
       \/ EntryAbandoned(j)
       \/ EntryFailed(j)
  \/ \E i \in DOMAIN trades :
       \/ \E reason \in Triggers : TradeTrigger(i, reason)
       \/ \E snapshot \in Ledgers : ExitFilled(i, snapshot)
       \/ ExitFailed(i)
  \/ CloseTrades

Spec == Init /\ [][Next]_vars

(***************************************************************************)
(* The same system under the scheduling the runtime gives: the limiter     *)
(* launches a waiting job once the lane is free, and every pending call of *)
(* the exchange adapter (clampQuantity, entry order, exit order) returns.  *)
(***************************************************************************)
JobReturns ==
  \E j \in DOMAIN jobs :
    \/ \E quantity \in clampQuantity(jobs[j].amount, info(jobs[j].chartId)) :
         ClampReturn(j, quantity)
    \/ ClampFail(j)
    \/ EntryFilled(j)
    \/ EntryAbandoned(j)
    \/ EntryFailed(j)

ExitReturns ==
  \E i \in DOMAIN trades :
    \/ \E snapshot \in Ledgers : ExitFilled(i, snapshot)
    \/ ExitFailed(i)

LiveSpec ==
  Spec /\ WF_vars(StartJob) /\ WF_vars(JobReturns) /\ WF_vars(ExitReturns)

(***************************************************************************)
(* The same system when, besides, every position that is open and not      *)
(* closing is eventually delivered one of its triggers, and an exit order  *)
(* that is submitted again and again is eventually filled.                 *)
(***************************************************************************)
TriggerDelivered(i) == \E reason \in Triggers : TradeTrigger(i, reason)

ExitSucceeds(i) == \E snapshot \in Ledgers : ExitFilled(i, snapshot)

LifeSpec ==
  /\ LiveSpec
  /\ \A i \in 1 .. MaxJobs : WF_vars(TriggerDelivered(i)) /\ SF_vars(ExitSucceeds(i))

(***************************************************************************)
(* The bot fed by its charts: every candle notification starts one         *)
(* advisor.analyze per advisor watching the chart, and every advice an     *)
(* analysis returns is pushed as a DIGEST_ADVICE notification, which the   *)
(* Subject hands to processNotification at once.  The bot is not paused.   *)
(* The Advisor class is not part of the sources at hand: following section *)
(* 6 of the specification, analyze may return advice for any candle.  In   *)
(* these runs positions are closed by CLOSE signals only.                  *)
(***************************************************************************)
\* chart.config.strategies in the order advisor.analyze maps them
strategySeq(chartId) ==
  IF chartId = "c1" THEN <<"s1", "s2">> ELSE <<"s2">>

\* what the promises of advisor.analyze can resolve with for a chart: for each
\* strategy an advice (its signals) or nothing, `room` signals at most
advicesOf(chartId, room) ==
  { adv \in [strategies(chartId) -> AdviceSignals \cup {<<>>}] :
      LET ss == strategySeq(chartId)
      IN Len(adv[ss[1]]) + (IF Len(ss) = 2 THEN Len(adv[ss[2]]) ELSE 0) <= room }

\* the advisors whose chartIds include the chart
advisorsOf(chartId) == { a \in Advisors : chartId \in chartIds(a) }

\* processNotification, ANALYZE_CHART: unless the bot is paused, analyzeChart
\* calls advisor.analyze for every advisor that watches the chart
AnalyzeChart(chartId, isFinal) ==
  /\ running
  /\ Len(candles) < MaxCandles
  /\ candles' = Append(candles, [chartId |-> chartId, isFinal |-> isFinal])
  /\ analyses' =
       IF paused
         THEN analyses
         ELSE analyses \cup { <<Len(candles) + 1, a>> : a \in advisorsOf(chartId) }
  /\ UNCHANGED <<trades, funds, jobs, queue, started, submitted, logs,
                 refreshed, shutdown, env>>

\* the jobs digestAdvice schedules for one advice of candle n
jobsOfAdvice(adviceId, n, advisorId, chartId, strategy, signals) ==
  [k \in 1 .. Len(signals) |->
     [newJob(adviceId, advisorId, chartId, strategy, signals[k])
        EXCEPT !.candle = n]]

\* advisor.analyze of analysis p has resolved: every advice is pushed as a
\* DIGEST_ADVICE notification and digested in the same run
AnalyzeReturns(p, adv) ==
  /\ running
  /\ p \in analyses
  /\ adv \in advicesOf(candles[p[1]].chartId, MaxJobs - Len(jobs))
  /\ LET n == p[1]
         advisorId == p[2]
         chartId == candles[n].chartId
         ss == strategySeq(chartId)
         id1 == IF jobs = <<>> THEN 1 ELSE jobs[Len(jobs)].advice + 1
         id2 == IF adv[ss[1]] = <<>> THEN id1 ELSE id1 + 1
         added ==
           jobsOfAdvice(id1, n, advisorId, chartId, ss[1], adv[ss[1]])
             \o (IF Len(ss) = 2
                   THEN jobsOfAdvice(id2, n, advisorId, chartId, ss[2], adv[ss[2]])
                   ELSE <<>>)
     IN /\ jobs' = jobs \o added
        /\ queue' = queue \o [k \in 1 .. Len(added) |-> Len(jobs) + k]
  /\ analyses' = analyses \ {p}
  /\ UNCHANGED <<trades, funds, started, submitted, logs, refreshed, candles,
                 shutdown, env>>

\* an analysis whose failure is caught and not logged
AnalyzeFailsSilently(p) ==
  /\ running
  /\ p \in analyses
  /\ analyses' = analyses \ {p}
  /\ UNCHANGED <<trades, funds, jobs, queue, started, submitted, logs,
                 refreshed, candles, shutdown, env>>

\* advisor.analyze of analysis p throws or rejects: catch, this.log(error)
AnalyzeFails(p) ==
  /\ running
  /\ p \in analyses
  /\ analyses' = analyses \ {p}
  /\ logs' = logs \cup {[level |-> "error", message |-> <<"analyze failed">>]}
  /\ UNCHANGED <<trades, funds, jobs, queue, started, submitted, refreshed,
                 candles, shutdown, env>>

BusNext ==
  \/ \E chartId \in Charts, isFinal \in BOOLEAN : AnalyzeChart(chartId, isFinal)
  \/ \E p \in analyses :
       \/ \E adv \in advicesOf(candles[p[1]].chartId, MaxJobs - Len(jobs)) :
            AnalyzeReturns(p, adv)
       \/ AnalyzeFails(p)
  \/ StartJob
  \/ JobReturns
  \/ ExitReturns

\* the bot constructed with a ledger that holds both assets
BusInit == Init /\ Assets \subseteq DOMAIN funds

BusSpec == BusInit /\ [][BusNext]_vars

\* a pending advisor.analyze returns
AnalysisReturns ==
  \E p \in analyses :
    \/ \E adv \in advicesOf(candles[p[1]].chartId, MaxJobs - Len(jobs)) :
         AnalyzeReturns(p, adv)
    \/ AnalyzeFails(p)

(***************************************************************************)
(* The operator pauses and unpauses trading with key p; a pause ends by    *)
(* itself when its 24 hour timer fires.                                    *)
(***************************************************************************)

\* key p: this.paused is toggled and logged; pausing starts the unpause
\* timer, unpausing unsubscribes it
PauseKey ==
  /\ running
  /\ paused' = ~paused
  /\ logs' = logs \cup
       {[level |-> "info",
         message |-> <<IF paused THEN "Trading unpaused" ELSE "Trading paused">>]}
  /\ UNCHANGED <<trades, funds, jobs, queue, started, submitted, refreshed, bus,
                 shutdown, charts, exchangeInfo, resync, startup, refreshes>>

\* the timer started by the pause fires: this.paused = false, logged
UnpauseTimerFires ==
  /\ running
  /\ paused
  /\ paused' = FALSE
  /\ logs' = logs \cup {[level |-> "info", message |-> <<"Trading unpaused">>]}
  /\ UNCHANGED <<trades, funds, jobs, queue, started, submitted, refreshed, bus,
                 shutdown, charts, exchangeInfo, resync, startup, refreshes>>

PauseNext ==
  \/ \E chartId \in Charts : AnalyzeChart(chartId, TRUE)
  \/ AnalysisReturns
  \/ StartJob
  \/ JobReturns
  \/ ExitReturns
  \/ PauseKey
  \/ UnpauseTimerFires

PauseSpec == BusInit /\ [][PauseNext]_vars

(***************************************************************************)
(* The bot whose charts replace their streams: the chart emits a           *)
(* RESUBSCRIBE_TRADES_TO_NEW_STREAM notification with the new stream,      *)
(* which the Subject hands to processNotification at once.                 *)
(***************************************************************************)
\* a filter that takes every trade of the chart, open or Closed
tradesOfChart(chartId) ==
  { i \in DOMAIN trades : trades[i].chartId = chartId }

\* this.trades.filter(trade => trade.chartId === chartId && trade.isOpen)
openTradesOfChart(chartId) ==
  { i \in DOMAIN trades : trades[i].chartId = chartId /\ trades[i].isOpen }

\* processNotification, RESUBSCRIBE_TRADES_TO_NEW_STREAM: trade.subscribe(stream)
\* on every open trade of the chart, in the order of this.trades; if the
\* subscribe of trade `thrower` throws, the map stops there and the catch of
\* processNotification logs the error (thrower = 0: none throws)
ResubscribeTrades(chartId, thrower) ==
  /\ running
  /\ charts[chartId].stream < MaxStreams
  /\ thrower \in openTradesOfChart(chartId) \cup {0}
  /\ LET stream == charts[chartId].stream + 1
         handed == { i \in openTradesOfChart(chartId) : thrower = 0 \/ i < thrower }
     IN /\ charts' = [charts EXCEPT ![chartId].stream = stream]
        /\ trades' = [i \in DOMAIN trades |->
                        IF i \in handed THEN [trades[i] EXCEPT !.stream = stream]
                        ELSE trades[i]]
  /\ logs' = IF thrower = 0 THEN logs
             ELSE logs \cup {[level |-> "error", message |-> <<"subscribe failed">>]}
  /\ UNCHANGED <<funds, jobs, queue, started, submitted, refreshed, bus,
                 shutdown, exchangeInfo, resync, startup, keys>>

Digestion ==
  \E advisorId \in Advisors, chartId \in Charts : \E strategy \in strategies(chartId) :
    \E signals \in AdviceSignals :
      DigestAdvice(advisorId, chartId, strategy, signals)

StreamNext ==
  \/ Digestion
  \/ StartJob
  \/ JobReturns
  \/ ExitReturns
  \/ \E chartId \in Charts :
       \E thrower \in openTradesOfChart(chartId) \cup {0} :
         ResubscribeTrades(chartId, thrower)

StreamSpec == BusInit /\ [][StreamNext]_vars

(***************************************************************************)
(* The bot with its periodic resync, and the bot with an operator who      *)
(* refreshes the funds view.  updateTimer runs when a timer fires; each of *)
(* its awaits (updateServerTime, retrieveExchangeInfo, updateFunds) may    *)
(* reject.                                                                 *)
(***************************************************************************)
\* the runs of updateTimer that stand at an await
resyncing ==
  { r \in DOMAIN resync.runs : resync.runs[r] \notin {"done", "failed"} }

\* a timer(...).subscribe(() => this.updateTimer()) fires
TimerFires ==
  /\ running
  /\ resync.timers > 0
  /\ Len(resync.runs) < MaxResyncs
  /\ resync' = [resync EXCEPT !.timers = @ - 1,
                              !.runs = Append(@, "updateServerTime")]
  /\ UNCHANGED <<trades, funds, jobs, queue, started, submitted, logs, refreshed,
                 bus, shutdown, charts, exchangeInfo, startup, keys>>

\* await this.provider.updateServerTime() returns: retrieveExchangeInfo is called
ServerTimeReturns(r) ==
  /\ running
  /\ r \in DOMAIN resync.runs /\ resync.runs[r] = "updateServerTime"
  /\ resync' = [resync EXCEPT !.runs[r] = "retrieveExchangeInfo"]
  /\ UNCHANGED <<trades, funds, jobs, queue, started, submitted, logs, refreshed,
                 bus, shutdown, charts, exchangeInfo, startup, keys>>

\* this.trades.filter(trade => trade.isOpen)
tradesToUpdate == { i \in DOMAIN trades : trades[i].isOpen }

\* retrieveExchangeInfo returns: this.exchangeInfo is replaced, every chart
\* and every open trade of this.trades is handed it, updateFunds(true) is called
ExchangeInfoReturns(r) ==
  /\ running
  /\ r \in DOMAIN resync.runs /\ resync.runs[r] = "retrieveExchangeInfo"
  /\ exchangeInfo' = exchangeInfo + 1
  /\ charts' = [c \in Charts |-> [charts[c] EXCEPT !.exchangeInfo = exchangeInfo']]
  /\ trades' = [i \in DOMAIN trades |->
                  IF i \in tradesToUpdate
                    THEN [trades[i] EXCEPT !.exchangeInfo = exchangeInfo']
                    ELSE trades[i]]
  /\ resync' = [resync EXCEPT !.runs[r] = "updateFunds"]
  /\ UNCHANGED <<funds, jobs, queue, started, submitted, logs, refreshed,
                 bus, shutdown, startup, keys>>

\* updateFunds(true) returns: this.funds is replaced, the run logs at level
\* silent and schedules the next one in 30 minutes
FundsReturn(r, snapshot) ==
  /\ running
  /\ r \in DOMAIN resync.runs /\ resync.runs[r] = "updateFunds"
  /\ snapshot \in Ledgers
  /\ funds' = snapshot
  /\ refreshed' = TRUE
  /\ resync' = [resync EXCEPT !.runs[r] = "done", !.timers = @ + 1, !.delay = 30]
  /\ UNCHANGED <<trades, jobs, queue, started, submitted, logs, bus, shutdown,
                 charts, exchangeInfo, startup, keys>>

\* a failed run that schedules no other
UpdateTimerFailsForGood(r) ==
  /\ running
  /\ r \in resyncing
  /\ resync' = [resync EXCEPT !.runs[r] = "failed"]
  /\ logs' = logs \cup {[level |-> "error",
                          message |-> <<"Unable to update server info">>]}
  /\ UNCHANGED <<trades, funds, jobs, queue, started, submitted, refreshed,
                 bus, shutdown, charts, exchangeInfo, startup, keys>>

\* the await the run stands at rejects: the catch schedules the next run in
\* one minute and logs the error
UpdateTimerFails(r) ==
  /\ running
  /\ r \in resyncing
  /\ resync' = [resync EXCEPT !.runs[r] = "failed", !.timers = @ + 1, !.delay = 1]
  /\ logs' = logs \cup {[level |-> "error",
                          message |-> <<"Unable to update server info">>]}
  /\ UNCHANGED <<trades, funds, jobs, queue, started, submitted, refreshed,
                 bus, shutdown, charts, exchangeInfo, startup, keys>>

\* key f in mode f: the handler calls this.retrieveFunds(true) and awaits it
FundsKeyPressed ==
  /\ running
  /\ Len(refreshes) < MaxRefreshes
  /\ refreshes' = Append(refreshes, "pending")
  /\ UNCHANGED <<trades, funds, jobs, queue, started, submitted, logs, refreshed,
                 bus, shutdown, charts, exchangeInfo, resync, startup, paused>>

\* retrieveFunds of refresh r resolves: this.funds = <what it resolved with>
FundsKeyReturns(r, snapshot) ==
  /\ running
  /\ r \in DOMAIN refreshes /\ refreshes[r] = "pending"
  /\ snapshot \in Ledgers
  /\ funds' = snapshot
  /\ refreshed' = TRUE
  /\ refreshes' = [refreshes EXCEPT ![r] = "done"]
  /\ UNCHANGED <<trades, jobs, queue, started, submitted, logs, bus, shutdown,
                 charts, exchangeInfo, resync, startup, paused>>

\* retrieveFunds of refresh r rejects: the catch logs the error
FundsKeyFails(r) ==
  /\ running
  /\ r \in DOMAIN refreshes /\ refreshes[r] = "pending"
  /\ refreshes' = [refreshes EXCEPT ![r] = "failed"]
  /\ logs' = logs \cup {[level |-> "error", message |-> <<"funds refresh failed">>]}
  /\ UNCHANGED <<trades, funds, jobs, queue, started, submitted, refreshed, bus,
                 shutdown, charts, exchangeInfo, resync, startup, paused>>

ResyncNext ==
  \/ Digestion
  \/ StartJob
  \/ JobReturns
  \/ ExitReturns
  \/ TimerFires
  \/ \E r \in DOMAIN resync.runs :
       \/ ServerTimeReturns(r)
       \/ ExchangeInfoReturns(r)
       \/ \E snapshot \in Ledgers : FundsReturn(r, snapshot)
       \/ UpdateTimerFails(r)

ResyncSpec == Init /\ [][ResyncNext]_vars

\* the digestion lane and the operator at key f
KeysNext ==
  \/ Digestion
  \/ StartJob
  \/ JobReturns
  \/ ExitReturns
  \/ FundsKeyPressed
  \/ \E r \in DOMAIN refreshes :
       \/ \E snapshot \in Ledgers : FundsKeyReturns(r, snapshot)
       \/ FundsKeyFails(r)

KeysSpec == Init /\ [][KeysNext]_vars

(***************************************************************************)
(* Startup: initialize(config), from the constructed bot to the running    *)
(* one or to process.exit().                                               *)
(***************************************************************************)
\* what one entry of config.advisors can be: the id of an advisor whose file
\* is well formed, the empty string, a value that is no string, an id with
\* no file, an id whose file exports no non-empty array
AdvisorEntries == Advisors \cup {"", "notString", "missing", "malformed"}

RECURSIVE EntrySeqs(_)
\* the arrays of up to n entries
EntrySeqs(n) ==
  IF n = 0 THEN {<<>>}
  ELSE LET shorter == EntrySeqs(n - 1)
       IN shorter \cup { Append(sq, e) : sq \in { x \in shorter : Len(x) = n - 1 },
                                         e \in AdvisorEntries }

\* the values initialize can be handed: config is an object, an array or
\* something else; provider is a usable id, the empty string, no string, an
\* id with no file; advisors is an array or not
Configs ==
  [shape : {"object", "array", "other"},
   provider : {"valid", "", "notString", "missing"},
   advisors : {[isArray |-> FALSE, ids |-> <<>>]}
                \cup [isArray : {TRUE}, ids : EntrySeqs(MaxAdvisorIds)]]

\* this.funds before addProvider
noFunds == [asset \in {} |-> [available |-> 0]]

StartupInit ==
  /\ trades = <<>>
  /\ funds = noFunds
  /\ jobs = <<>>
  /\ queue = <<>>
  /\ started = <<>>
  /\ submitted = <<>>
  /\ logs = {}
  /\ refreshed = FALSE
  /\ candles = <<>>
  /\ analyses = {}
  /\ shutdown = [status |-> "none", requested |-> {}, awaiting |-> {}]
  /\ charts = [c \in Charts |-> [stream |-> 0, exchangeInfo |-> 0]]
  /\ exchangeInfo = 0
  /\ resync = [timers |-> 0, delay |-> 30, runs |-> <<>>]
  /\ startup \in [pc : {"start"}, config : Configs, index : {0}, added : {{}}]
  /\ refreshes = <<>>
  /\ paused = FALSE

\* let { advisors: advisorIds = [] } = config, made [] if it is no array
advisorIds == IF startup.config.advisors.isArray
                THEN startup.config.advisors.ids ELSE <<>>

\* the catch of initialize: this.log(error); process.exit()
startupFailure(message) ==
  /\ logs' = logs \cup {[level |-> "error", message |-> <<message>>]}
  /\ startup' = [startup EXCEPT !.pc = "failed"]
  /\ shutdown' = [shutdown EXCEPT !.status = "exited"]

\* initialize up to its first await: the tests of config and of provider
CheckConfig ==
  /\ running
  /\ startup.pc = "start"
  /\ IF startup.config.shape # "object"
       THEN startupFailure("Bot not configured properly")
     ELSE IF startup.config.provider \in {"", "notString"}
       THEN startupFailure("Provider not configured properly")
     ELSE /\ startup' = [startup EXCEPT !.pc = "addProvider"]
          /\ UNCHANGED <<logs, shutdown>>
  /\ UNCHANGED <<trades, funds, jobs, queue, started, submitted, refreshed, bus,
                 charts, exchangeInfo, resync, keys>>

\* addProvider resolves: exchangeInfo and funds are stored, the notifications
\* are subscribed, the first resync timer is started, and advisors that are
\* no array are logged and taken as []
ProviderAdded(snapshot) ==
  /\ running
  /\ startup.pc = "addProvider" /\ startup.config.provider = "valid"
  /\ snapshot \in Ledgers
  /\ funds' = snapshot
  /\ resync' = [resync EXCEPT !.timers = 1]
  /\ logs' = IF startup.config.advisors.isArray THEN logs
             ELSE logs \cup {[level |-> "error",
                              message |-> <<"Advisors not configured properly">>]}
  /\ startup' = [startup EXCEPT !.pc = "advisors", !.index = 1]
  /\ UNCHANGED <<trades, jobs, queue, started, submitted, refreshed, bus,
                 shutdown, charts, exchangeInfo, keys>>

\* addProvider rejects (no such provider, or retrieveExchangeInfo or
\* updateFunds rejects): the catch of initialize
ProviderFails ==
  /\ running
  /\ startup.pc = "addProvider"
  /\ startupFailure("Provider failed")
  /\ UNCHANGED <<trades, funds, jobs, queue, started, submitted, refreshed, bus,
                 charts, exchangeInfo, resync, keys>>

\* the entry is no string or is empty: the throw is caught and logged, the
\* entry's promise resolves and concatMap goes on to the next entry
AdvisorIdInvalid ==
  /\ running
  /\ startup.pc = "advisors" /\ startup.index \in DOMAIN advisorIds
  /\ advisorIds[startup.index] \in {"", "notString"}
  /\ logs' = logs \cup {[level |-> "error",
                          message |-> <<"Advisor not configured properly">>]}
  /\ startup' = [startup EXCEPT !.index = @ + 1]
  /\ UNCHANGED <<trades, funds, jobs, queue, started, submitted, refreshed, bus,
                 shutdown, charts, exchangeInfo, resync, keys>>

\* await this.addAdvisor(advisorId) resolves: the advisor is added
AdvisorAdded ==
  /\ running
  /\ startup.pc = "advisors" /\ startup.index \in DOMAIN advisorIds
  /\ advisorIds[startup.index] \in Advisors
  /\ startup' = [startup EXCEPT !.index = @ + 1,
                                !.added = @ \cup {advisorIds[startup.index]}]
  /\ UNCHANGED <<trades, funds, jobs, queue, started, submitted, logs, refreshed,
                 bus, shutdown, charts, exchangeInfo, resync, keys>>

\* await this.addAdvisor(advisorId) rejects (no file, no non-empty array, or
\* a failure while its charts are initialized): caught and logged, the
\* entry's promise resolves and concatMap goes on to the next entry
AdvisorRejected ==
  /\ running
  /\ startup.pc = "advisors" /\ startup.index \in DOMAIN advisorIds
  /\ advisorIds[startup.index] \notin {"", "notString"}
  /\ logs' = logs \cup {[level |-> "error", message |-> <<"Advisor failed">>]}
  /\ startup' = [startup EXCEPT !.index = @ + 1]
  /\ UNCHANGED <<trades, funds, jobs, queue, started, submitted, refreshed, bus,
                 shutdown, charts, exchangeInfo, resync, keys>>

\* forkJoin has completed: initialize returns
StartupCompletes ==
  /\ running
  /\ startup.pc = "advisors" /\ startup.index = Len(advisorIds) + 1
  /\ startup' = [startup EXCEPT !.pc = "done"]
  /\ UNCHANGED <<trades, funds, jobs, queue, started, submitted, logs, refreshed,
                 bus, shutdown, charts, exchangeInfo, resync, keys>>

StartupNext ==
  \/ CheckConfig
  \/ \E snapshot \in Ledgers : ProviderAdded(snapshot)
  \/ ProviderFails
  \/ AdvisorIdInvalid
  \/ AdvisorAdded
  \/ AdvisorRejected
  \/ StartupCompletes

StartupSpec == StartupInit /\ [][StartupNext]_vars

(***************************************************************************)
(* The bot with an operator who may confirm the quit: after process.exit() *)
(* nothing runs any more.                                                  *)
(***************************************************************************)
QuitNext == Next \/ Shutdown

QuitSpec == Init /\ [][QuitNext]_vars

(***************************************************************************)
(* Properties.                                                             *)
(***************************************************************************)
isOpening(job) == job.signal \in {"LONG", "SHORT"}

samePair(x, y) == x.advisorId = y.advisorId /\ x.chartId = y.chartId

\* C1: in every reachable state the trades list holds at most one trade with
\* isOpen = true for each (advisorId, chartId) pair, also after closes and
\* re-opens.
AtMostOneOpenPerPair ==
  \A i, k \in DOMAIN trades :
    (i # k /\ samePair(trades[i], trades[k]))
      => ~(trades[i].isOpen /\ trades[k].isOpen)

\* C1 witness: a pair whose first position was closed holds a second, open one
ReopenedPair ==
  \E i, k \in DOMAIN trades :
    /\ i < k /\ samePair(trades[i], trades[k])
    /\ ~trades[i].isOpen /\ trades[k].isOpen

\* C2: while the entry order of a new position is pending (the job is between
\* the uniqueness re-check and the push), no other digestion is running and
\* the pair holds no open trade, so two LONG signals of one pair never yield
\* two positions: open trades plus pending openings of a pair are at most one.
RegistrationAtomic ==
  \A j \in DOMAIN jobs :
    jobs[j].pc = "initializing"
      => /\ Running = {j}
         /\ openTradeOfPair(jobs[j].advisorId, jobs[j].chartId) = {}
         /\ \A k \in DOMAIN jobs :
              (k # j /\ samePair(jobs[k], jobs[j])) => jobs[k].pc # "initializing"

\* C2 witness: a second LONG of the pair is waiting in the limiter while the
\* first position's entry order is still pending
SecondLongWhileOpening ==
  \E j, k \in DOMAIN jobs :
    /\ j < k /\ samePair(jobs[j], jobs[k])
    /\ jobs[j].signal = "LONG" /\ jobs[k].signal = "LONG"
    /\ jobs[j].advice # jobs[k].advice
    /\ jobs[j].pc = "initializing" /\ jobs[k].pc = "queued"

\* the open positions that were sized from the asset
openPositionsFrom(asset) ==
  { i \in DOMAIN trades :
      trades[i].isOpen
      /\ settlementAsset(trades[i].chartId, trades[i].isLong) = asset }

AmountIsRiskShare ==
  /\ \A j \in DOMAIN jobs :
       /\ jobs[j].pc \in {"clamping", "initializing"}
            => jobs[j].amount.num * 100
                 = (jobs[j].avail - jobs[j].locked) * risk(jobs[j].strategy)
                     * jobs[j].amount.den
       /\ (jobs[j].pc = "initializing" /\ risk(jobs[j].strategy) = 10
             /\ jobs[j].avail = 1000 /\ jobs[j].locked = 0)
            => jobs[j].quantity = 100
  /\ (/\ Len(trades) >= 1 /\ ~refreshed /\ available("USDT") = 1000
      /\ trades[1].isLong /\ risk(trades[1].who[3]) = 10)
       => trades[1].quantity = 100

\* C4 witness: the first position, a LONG sized with risk 10 from 1000
\* available and nothing committed, is in trades with quantity 100
FirstLongOfHundred ==
  /\ Len(trades) = 1 /\ ~refreshed /\ available("USDT") = 1000
  /\ trades[1].isLong /\ risk(trades[1].who[3]) = 10
  /\ trades[1].quantity = 100 /\ trades[1].isOpen

DigestionsSerialized ==
  /\ Cardinality({ j \in DOMAIN jobs :
                     isOpening(jobs[j])
                     /\ jobs[j].pc \in {"clamping", "initializing"} }) <= 1
  /\ \A k \in DOMAIN started : started[k] = k
  /\ \A j \in DOMAIN jobs :
       jobs[j].pc = "queued" => \A k \in DOMAIN started : started[k] < j

\* C6 witness: of two LONG / SHORT signals from different advices on
\* different charts the first has registered its trade and the second is
\* awaiting its entry order
SecondOpeningAfterFirst ==
  /\ Len(jobs) = 2 /\ Len(trades) = 1
  /\ isOpening(jobs[1]) /\ isOpening(jobs[2])
  /\ jobs[1].advice # jobs[2].advice /\ jobs[1].chartId # jobs[2].chartId
  /\ jobs[1].pc = "resolved" /\ jobs[2].pc = "initializing"
  /\ started = <<1, 2>>

\* the exchange orders in flight: entry orders of digestions and exit orders
\* of positions being closed
ordersInFlight ==
  Cardinality({ j \in DOMAIN jobs : jobs[j].pc = "initializing" })
    + Cardinality({ i \in DOMAIN trades :
                      trades[i].isOpen /\ trades[i].closing # "none" })

\* C7: at most one exchange order submission is in flight at any time,
\* counting entry orders, exit orders from CLOSE signals, exit orders from a
\* position's own triggers and the exit orders of closeTrades.
OneOrderInFlight == ordersInFlight <= 1

\* C8: the order submissions of the queued jobs reach the exchange adapter in
\* the order the jobs were enqueued: no job's order is submitted before that
\* of an earlier job, nor while an earlier job is still waiting.
OrdersInEnqueueOrder ==
  /\ \A k, m \in DOMAIN submitted : k < m => submitted[k] < submitted[m]
  /\ \A k \in DOMAIN submitted :
       \A j \in DOMAIN jobs : j < submitted[k] => jobs[j].pc # "queued"

\* C8 witness: two jobs of different advices have each submitted an order
TwoOrdersSubmitted ==
  /\ Len(submitted) = 2
  /\ jobs[submitted[1]].advice # jobs[submitted[2]].advice

orderFailed(j) ==
  j \in DOMAIN jobs /\ jobs[j].error \in {"entry order failed", "exit order failed"}

\* C9: a queued job whose order submission fails is rejected, its error
\* reaches the log through its caller, and it does not hold the lane: every
\* job queued behind it is launched and settles.
FailedOrderFreesLane ==
  /\ [](\A j \in DOMAIN jobs :
          orderFailed(j)
            => /\ jobs[j].pc = "rejected"
               /\ \E l \in logs : l.level = "error")
  /\ \A j \in 1 .. MaxJobs :
       orderFailed(j)
         ~> (\A k \in DOMAIN jobs : k > j => jobs[k].pc \in Settled)

\* C9 witness: the first signal of an advice failed at its entry order and a
\* later signal of the same advice has been launched and has opened a trade
LaterSignalRunsAfterFailure ==
  \E j, k \in DOMAIN jobs :
    /\ j < k /\ jobs[j].advice = jobs[k].advice
    /\ jobs[j].pc = "rejected" /\ jobs[j].error = "entry order failed"
    /\ [level |-> "error", message |-> <<"entry order failed">>] \in logs
    /\ jobs[k].pc = "resolved" /\ isOpening(jobs[k])
    /\ Len(trades) = 1

\* C10: a CLOSE LONG / CLOSE SHORT signal requests trade.close('signal') only
\* of an open trade whose advisorId, chartId and who match the signal and
\* whose direction matches the signal's polarity.
CloseOnlyMatchingTrade ==
  /\ \A j \in DOMAIN jobs :
       jobs[j].pc = "closing"
         => LET t == trades[jobs[j].trade]
            IN /\ t.isOpen /\ t.closing = "signal"
               /\ t.advisorId = jobs[j].advisorId
               /\ t.chartId = jobs[j].chartId
               /\ t.who = <<jobs[j].advisorId, jobs[j].chartId, jobs[j].strategy>>
               /\ jobs[j].signal = IF t.isLong THEN "CLOSE LONG" ELSE "CLOSE SHORT"
  /\ \A i \in DOMAIN trades :
       trades[i].closing = "signal"
         => \E j \in DOMAIN jobs : jobs[j].pc = "closing" /\ jobs[j].trade = i

\* C10 witness: a CLOSE SHORT signal is closing the short position its own
\* strategy opened
CloseSignalClosing ==
  \E j \in DOMAIN jobs :
    /\ jobs[j].pc = "closing" /\ jobs[j].signal = "CLOSE SHORT"
    /\ trades[jobs[j].trade].closing = "signal"
    /\ ~trades[jobs[j].trade].isLong

\* the open positions a CLOSE signal addresses: same advisor, chart and who,
\* and the direction the signal names
matchingOpenPositions(job) ==
  { i \in DOMAIN trades :
      /\ trades[i].isOpen
      /\ trades[i].advisorId = job.advisorId /\ trades[i].chartId = job.chartId
      /\ trades[i].who = <<job.advisorId, job.chartId, job.strategy>>
      /\ trades[i].isLong = (job.signal = "CLOSE LONG") }

\* C11: a CLOSE LONG / CLOSE SHORT signal that finds no matching open
\* position when it is digested is a no-op: the job resolves, no close is
\* requested, trades and funds stay as they are and nothing is logged.
CloseWithoutMatchIsNoOp ==
  [][\A j \in DOMAIN jobs :
       (/\ jobs[j].pc = "queued" /\ jobs'[j].pc # "queued"
        /\ jobs[j].signal \in {"CLOSE LONG", "CLOSE SHORT"}
        /\ matchingOpenPositions(jobs[j]) = {})
         => /\ jobs'[j].pc = "resolved" /\ jobs'[j].error = "none"
            /\ trades' = trades /\ funds' = funds
            /\ logs' = logs /\ submitted' = submitted]_vars

\* C11 witness: a CLOSE LONG of the strategy that opened the short position
\* has resolved, the short position is untouched and nothing was logged
CloseLongLeftShortOpen ==
  \E j \in DOMAIN jobs :
    /\ jobs[j].signal = "CLOSE LONG" /\ jobs[j].pc = "resolved"
    /\ Len(trades) = 1 /\ trades[1].isOpen /\ ~trades[1].isLong
    /\ trades[1].who = <<jobs[j].advisorId, jobs[j].chartId, jobs[j].strategy>>
    /\ trades[1].closing = "none" /\ logs = {} /\ ~refreshed

\* C12: every signal value other than LONG, SHORT, CLOSE LONG, CLOSE SHORT
\* is reported as an error that names the signal's strategy.
UnknownSignalReported ==
  \A j \in DOMAIN jobs :
    jobs[j].error = "Unable to process signal"
      => [level |-> "error",
          message |-> <<"Unable to process signal", jobs[j].signal,
                        jobs[j].strategy>>] \in logs

\* C14: when clampQuantity returns zero or a negative quantity the job
\* resolves without an error, trades is left as it is and nothing is logged;
\* no trade ever has a quantity of zero or less.
NoTradeWithoutQuantity ==
  /\ [](\A i \in DOMAIN trades : trades[i].quantity > 0)
  /\ [][\A j \in DOMAIN jobs :
          \A quantity \in clampQuantity(jobs[j].amount, info(jobs[j].chartId)) :
            (quantity <= 0 /\ ClampReturn(j, quantity))
              => /\ jobs'[j].pc = "resolved" /\ jobs'[j].error = "none"
                 /\ trades' = trades /\ logs' = logs]_vars

\* C14 witness: the ledger holds nothing of the base asset, so the amount of
\* the first SHORT was zero; its job resolved, no trade, nothing logged
ShortWithoutCapitalSkipped ==
  /\ Len(jobs) >= 1 /\ jobs[1].signal = "SHORT" /\ jobs[1].pc = "resolved"
  /\ ~refreshed /\ available(info(jobs[1].chartId).baseAsset) = 0
  /\ trades = <<>> /\ logs = {}

\* Promise.all of an advice has settled: every job resolved or one rejected
adviceFinished(a) ==
  \/ \A j \in DOMAIN jobs : jobs[j].advice = a => jobs[j].pc = "resolved"
  \/ \E j \in DOMAIN jobs : jobs[j].advice = a /\ jobs[j].pc = "rejected"

\* C16: notifications are processed one at a time: the processing of a
\* notification starts only when that of every earlier notification has
\* finished, its asynchronous part included.
NotificationsOneAtATime ==
  \A j, k \in DOMAIN jobs :
    jobs[j].advice < jobs[k].advice => adviceFinished(jobs[j].advice)

QuitEndsInExit ==
  ~(/\ shutdown.status = "failed"
    /\ \A i \in DOMAIN trades :
         ~(trades[i].isOpen /\ trades[i].closing = "expire"))

ProvisionalSignalDiscarded ==
  \A i \in DOMAIN trades :
    trades[i].candle \in DOMAIN candles => candles[trades[i].candle].isFinal

\* the message processNotification logs for the rejection of job j
rejectionMessage(j) ==
  IF jobs[j].error = "Unable to process signal"
    THEN <<"Unable to process signal", jobs[j].signal, jobs[j].strategy>>
    ELSE <<jobs[j].error>>

\* the work the notifications pushed so far have left to do
workPending ==
  analyses # {} \/ \E j \in DOMAIN jobs : jobs[j].pc \notin Settled

SameChartAdviceInCandleOrder ==
  \A j, k \in DOMAIN jobs :
    (j < k /\ jobs[j].chartId = jobs[k].chartId)
      => jobs[j].candle <= jobs[k].candle

\* the job whose entry order for the position that will be trades[t] is pending
opening(t) ==
  { j \in DOMAIN jobs : jobs[j].pc = "initializing" /\ jobs[j].trade = t }

\* C21: every position that reaches Opening eventually is abandoned (its
\* entry order failed, nothing is registered) or Closed, provided that its
\* triggers are eventually delivered and that exit orders eventually succeed.
OpeningEndsAbandonedOrClosed ==
  \A t \in 1 .. MaxJobs :
    (opening(t) # {})
      ~> \/ (t \notin DOMAIN trades /\ opening(t) = {})
         \/ (t \in DOMAIN trades /\ ~trades[t].isOpen)

\* C21 witness: a position was opened, its first exit order failed, and it
\* has been Closed by a later one
ClosedAfterFailedExit ==
  /\ Len(trades) = 1 /\ ~trades[1].isOpen
  /\ [level |-> "error", message |-> <<"exit order failed">>] \in logs
  /\ Len(jobs) = 1 /\ jobs[1].pc = "resolved"

FailedExitKeepsPositionOpen ==
  /\ [][\A i \in DOMAIN trades :
         ExitFailed(i)
           => /\ Len(trades') = Len(trades)
              /\ trades'[i].isOpen /\ trades'[i].quantity = trades[i].quantity
              /\ openTradeOfPair(trades[i].advisorId, trades[i].chartId)' = {i}
              /\ \A asset \in Assets :
                   quantityLockedByTrades(asset)' = quantityLockedByTrades(asset)]_vars
  /\ [][\A i \in DOMAIN trades :
         (trades[i].isOpen /\ ~trades'[i].isOpen) => ExitSucceeds(i)]_vars
  /\ [](\A j \in DOMAIN jobs :
          jobs[j].pc = "initializing"
            => \A i \in DOMAIN trades :
                 samePair(trades[i], jobs[j]) => ~trades[i].isOpen)

\* C23 witness: the exit order of the open LONG failed, and a SHORT sized
\* afterwards on the same chart sees the LONG's quantity as committed
ShortSizedAfterFailedExit ==
  /\ Len(trades) = 1 /\ trades[1].isOpen /\ trades[1].isLong
  /\ trades[1].closing = "none"
  /\ [level |-> "error", message |-> <<"exit order failed">>] \in logs
  /\ Len(jobs) = 2 /\ jobs[2].signal = "SHORT" /\ jobs[2].pc = "clamping"
  /\ jobs[2].chartId = trades[1].chartId
  /\ jobs[2].locked = trades[1].quantity /\ trades[1].quantity > 0

\* the open positions of a job's pair, read off the trades list
openOfPair(job) ==
  { i \in DOMAIN trades : trades[i].isOpen /\ samePair(trades[i], job) }

\* C24: a Closed position is excluded from the uniqueness check and from
\* the committed sum: a LONG or SHORT whose clamped quantity is positive
\* and whose pair holds no open position goes on to open one, whatever
\* Closed positions the pair holds, and a digestion that starts while every
\* position is Closed counts nothing as committed.
ClosedPositionCountsForNothing ==
  /\ [][\A j \in DOMAIN jobs :
         \A quantity \in clampQuantity(jobs[j].amount, info(jobs[j].chartId)) :
           (quantity > 0 /\ ClampReturn(j, quantity) /\ openOfPair(jobs[j]) = {})
             => /\ jobs'[j].pc = "initializing"
                /\ jobs'[j].quantity = quantity]_vars
  /\ [][\A j \in DOMAIN jobs :
         (/\ jobs[j].pc = "queued" /\ jobs'[j].pc = "clamping"
          /\ \A i \in DOMAIN trades : ~trades[i].isOpen)
           => jobs'[j].locked = 0]_vars
  /\ [](\A asset \in Assets :
          (\A i \in DOMAIN trades : ~trades[i].isOpen)
            => quantityLockedByTrades(asset) = 0)

\* C24 witness: the only position of a pair is Closed and the next LONG or
\* SHORT of the pair, sized with nothing committed, is opening a new one
OpeningAfterClosure ==
  /\ Len(trades) = 1 /\ ~trades[1].isOpen /\ trades[1].quantity > 0
  /\ Len(jobs) = 2 /\ samePair(jobs[2], trades[1])
  /\ jobs[2].pc = "initializing" /\ jobs[2].locked = 0
  /\ jobs[2].quantity > 0

\* C25: when a stream-replacement notification of chart c has been processed
\* without a throw, every open position of c has been handed the new stream
\* and no position of another chart and no Closed position has been handed
\* it; when a subscribe throws, the error is logged and still no position of
\* another chart and no Closed position is resubscribed.
OpenTradesOfChartResubscribed ==
  [][\A c \in Charts :
       /\ ResubscribeTrades(c, 0)
            => \A i \in DOMAIN trades :
                 trades'[i].stream =
                   IF trades[i].chartId = c /\ trades[i].isOpen
                     THEN charts'[c].stream ELSE trades[i].stream
       /\ \A thrower \in DOMAIN trades :
            ResubscribeTrades(c, thrower)
              => /\ [level |-> "error", message |-> <<"subscribe failed">>] \in logs'
                 /\ \A i \in DOMAIN trades :
                      (trades[i].chartId # c \/ ~trades[i].isOpen)
                        => trades'[i].stream = trades[i].stream]_vars

\* C25 witness: the stream of c2 was replaced while a position was open on
\* each chart, and only the position of c2 holds the new stream
OnlyTradeOfChartResubscribed ==
  /\ Len(trades) = 2 /\ trades[1].isOpen /\ trades[2].isOpen
  /\ trades[1].chartId = "c1" /\ trades[2].chartId = "c2"
  /\ charts["c1"].stream = 0 /\ charts["c2"].stream = 1
  /\ trades[1].stream = 0 /\ trades[2].stream = 1
  /\ logs = {}

\* C26: the periodic resync never stops and never multiplies: at any time
\* exactly one run of updateTimer is either scheduled or in progress; a run
\* that succeeds schedules the next one in 30 minutes, a run that fails
\* schedules it in 1 minute, logs the error and ends nothing; and while a
\* resync is pending every pending digestion or closure can take its next
\* step.
PeriodicResyncGoesOn ==
  /\ [](resync.timers + Cardinality(resyncing) = 1)
  /\ [][\A r \in resyncing :
         /\ resync'.runs[r] = "done"
              => resync'.timers = resync.timers + 1 /\ resync'.delay = 30
         /\ resync'.runs[r] = "failed"
              => /\ resync'.timers = resync.timers + 1 /\ resync'.delay = 1
                 /\ [level |-> "error",
                     message |-> <<"Unable to update server info">>] \in logs'
                 /\ shutdown' = shutdown /\ running']_vars
  /\ [](workPending => ENABLED (StartJob \/ JobReturns \/ ExitReturns))

\* C26 witness: the first resync failed, the second one runs one minute
\* later and awaits the funds while a position's entry order is pending
DigestionDuringRetriedResync ==
  /\ resync.runs = <<"failed", "updateFunds">> /\ resync.timers = 0
  /\ resync.delay = 1
  /\ \E j \in DOMAIN jobs : jobs[j].pc = "initializing"

\* C27: after a successful resync run every chart and every open position
\* holds the exchange metadata that run fetched, also a position whose
\* opening overlapped the resync.
MetadataCurrentAfterResync ==
  (/\ resync.runs # <<>> /\ resync.runs[Len(resync.runs)] = "done")
    => /\ \A c \in Charts : charts[c].exchangeInfo = exchangeInfo
       /\ \A i \in DOMAIN trades :
            trades[i].isOpen => trades[i].exchangeInfo = exchangeInfo

\* the positions that are open
openPositions == { i \in DOMAIN trades : trades[i].isOpen }

\* C30: this.funds and the set of open positions change only in a step of a
\* digestion job (the job that opens or closes the position settles) or in
\* the funds step of the periodic resync.
SharedStateWrittenInLaneOrResync ==
  [][(funds' # funds \/ openPositions' # openPositions)
       => \/ \E r \in DOMAIN resync.runs :
              resync.runs[r] = "updateFunds" /\ resync'.runs[r] = "done"
          \/ \E j \in Running : jobs'[j].pc \in Settled]_vars

\* the advisors of the config are an array of ids of well-formed advisors
advisorsWellFormed ==
  /\ startup.config.advisors.isArray
  /\ \A k \in DOMAIN startup.config.advisors.ids :
       startup.config.advisors.ids[k] \in Advisors

\* C28: an invalid advisor configuration is fatal at startup: initialize
\* completes only if the advisor list is an array of non-empty strings that
\* name well-formed advisors, and the bot never runs without an advisor of
\* its config.
InvalidAdvisorConfigIsFatal ==
  startup.pc = "done"
    => /\ advisorsWellFormed
       /\ \A k \in DOMAIN advisorIds : advisorIds[k] \in startup.added

EveryJobSettles ==
  \A j \in 1 .. MaxJobs :
    (j \in DOMAIN jobs) ~> (j \in DOMAIN jobs /\ jobs[j].pc \in Settled)

\* C31 witness: an advice whose first signal was rejected as unknown and
\* whose second signal, a LONG or SHORT that opened nothing, was resolved
BatchSettledAfterRejection ==
  /\ Len(jobs) = 2 /\ jobs[1].advice = jobs[2].advice
  /\ jobs[1].signal = "HOLD" /\ jobs[1].pc = "rejected"
  /\ isOpening(jobs[2]) /\ jobs[2].pc = "resolved"
  /\ trades = <<>>

\* C32: when the process has exited after a confirmed quit no position is
\* left open: every trade is Closed and no entry order is pending, also for
\* a position whose Trade.initialize was pending when closeTrades took its
\* snapshot of the open trades.
NoPositionLeftAtExit ==
  ~running
    => /\ \A i \in DOMAIN trades : ~trades[i].isOpen
       /\ \A j \in DOMAIN jobs : jobs[j].pc # "initializing"

\* C33: every open position monitors the current stream of its chart, also
\* one whose entry order was pending when the stream was replaced (no
\* subscribe having thrown).
OpenTradesHoldCurrentStream ==
  ([level |-> "error", message |-> <<"subscribe failed">>] \notin logs)
    => \A i \in DOMAIN trades :
         trades[i].isOpen => trades[i].stream = charts[trades[i].chartId].stream

\* C34: of two overlapping funds refreshes the one started last has the last
\* word: a refresh never writes this.funds after a refresh that was started
\* later than it has written its snapshot.
EarlierRefreshNeverOverwritesLater ==
  [][\A r \in DOMAIN refreshes :
       (refreshes[r] = "pending" /\ refreshes'[r] = "done")
         => \A q \in DOMAIN refreshes : q > r => refreshes[q] # "done"]_vars

\* C35: while the bot is paused no position is added to this.trades, also
\* not from an advice that was being analysed or was queued in the limiter
\* when the pause began.
NoPositionOpenedWhilePaused ==
  [][(paused /\ paused') => Len(trades') = Len(trades)]_vars

\* C36: trade ids are unique: the id of every trade in this.trades is its
\* 1-based index there, so no two trades share an id, whatever the
\* interleaving of digestions, failed openings and closes.
TradeIdIsIndexInTrades ==
  /\ \A i \in DOMAIN trades : trades[i].id = i
  /\ \A i, k \in DOMAIN trades : i # k => trades[i].id # trades[k].id

\* two positions were opened one after the other, each with its own id
SecondTradeNumberedTwo ==
  /\ Len(trades) = 2
  /\ trades[1].id = 1 /\ trades[2].id = 2
  /\ \A j \in DOMAIN jobs : jobs[j].pc = "resolved"

====
